---- MODULE Spec2Model ----
(***************************************************************************)
(* cmp_json: cmp_expected(got, exp), the subset comparison of two          *)
(* serde_json Values (src/src/lib.rs).                                     *)
(*                                                                         *)
(* The function is modelled twice from the same source text: as the        *)
(* recursive operator cmp_expected, and as the machine that executes it,   *)
(* one stack frame per call of cmp_expected, one action per arm of its     *)
(* match expressions and per step of its two `all` iterations.  Both read  *)
(* the same helpers (as_array, as_object, LenMismatch, Zip, Get, ValueEq). *)
(***************************************************************************)
EXTENDS Integers, Sequences, FiniteSets, TLC

(***************************************************************************)
(* serde_json::Value.  A value is a record [t, v]: t is the variant and v  *)
(* its payload.  A Number's payload keeps serde_json's representation      *)
(* (PosInt / NegInt / Float) beside its magnitude, since Number's equality *)
(* compares like representations only: 6 and 6.0 are different Numbers.    *)
(***************************************************************************)
Null == [t |-> "Null", v |-> <<>>]

Bool(b) == [t |-> "Bool", v |-> b]

Number(repr, mag) == [t |-> "Number", v |-> [repr |-> repr, mag |-> mag]]

String(s) == [t |-> "String", v |-> s]

Array(a) == [t |-> "Array", v |-> a]

Object(o) == [t |-> "Object", v |-> o]

\* Option<T>: None, Some(x).
None == [some |-> FALSE]

Some(x) == [some |-> TRUE, val |-> x]

(***************************************************************************)
(* Bounds of the inputs.  A value has at most MaxNodes nodes (a scalar, an *)
(* array or an object is one node, plus the nodes of its members), which   *)
(* bounds the nesting depth, the array length and the object size at once. *)
(***************************************************************************)
MaxNodes == 3

\* The keys objects are built from, in the order a Map iterates them.
KeyOrder == <<"a", "b">>

Keys == {KeyOrder[i] : i \in 1..Len(KeyOrder)}

\* The scalars compared at the top level.
Scalars ==
    {Null, Bool(TRUE), Bool(FALSE), Number("PosInt", 6), Number("Float", 6),
     Number("PosInt", 2), String("6"), String("bar")}

\* The scalars that occur inside arrays and objects.
Leaves == {Null, Number("PosInt", 6), String("6")}

RECURSIVE ValuesOfSize(_), SeqsOfSize(_), MapsOfSize(_, _)
\* The sequences of values with n nodes in all.
SeqsOfSize(n) ==
    IF n = 0 THEN {<<>>}
    ELSE UNION {{<<x>> \o s : x \in ValuesOfSize(j), s \in SeqsOfSize(n - j)} : j \in 1..n}

\* The maps with n nodes in all whose keys are among KeyOrder[from..].
MapsOfSize(from, n) ==
    IF from > Len(KeyOrder) THEN (IF n = 0 THEN {<<>>} ELSE {})
    ELSE MapsOfSize(from + 1, n)
         \cup UNION {{(KeyOrder[from] :> x) @@ m :
                        x \in ValuesOfSize(j), m \in MapsOfSize(from + 1, n - j)} : j \in 1..n}

\* The values with exactly n nodes.
ValuesOfSize(n) ==
    IF n = 1 THEN Leaves \cup {Array(<<>>), Object(<<>>)}
    ELSE {Array(s) : s \in SeqsOfSize(n - 1)} \cup {Object(m) : m \in MapsOfSize(1, n - 1)}

\* The inputs of a call.
Values == Scalars \cup UNION {ValuesOfSize(n) : n \in 1..MaxNodes}

(***************************************************************************)
(* The helpers cmp_expected reads.                                         *)
(***************************************************************************)
\* as_array with a default: what is not an Array counts as the empty one.
as_array_or_empty(val) == IF val.t = "Array" THEN Some(val.v) ELSE Some(<<>>)

\* Value::as_array: Some(vec) of an Array, None of anything else.
as_array(val) == IF val.t = "Array" THEN Some(val.v) ELSE None

\* Value::as_object: Some(map) of an Object, None of anything else.
as_object(val) == IF val.t = "Object" THEN Some(val.v) ELSE None

\* The length check in one direction only: e_arr.len() > g_arr.len().
LenMismatchExpLonger(e_arr, g_arr) == Len(e_arr) > Len(g_arr)

\* e_arr.len() != g_arr.len()
LenMismatch(e_arr, g_arr) == Len(e_arr) # Len(g_arr)

\* e_arr.iter().zip(g_arr.iter()): the pairs (e, g), as many as the shorter has.
Zip(e_arr, g_arr) ==
    [i \in 1..(IF Len(e_arr) <= Len(g_arr) THEN Len(e_arr) ELSE Len(g_arr))
        |-> [e |-> e_arr[i], g |-> g_arr[i]]]

\* e_obj.iter(): the keys of the map, in its iteration order.
Iter(e_obj) == SelectSeq(KeyOrder, LAMBDA k : k \in DOMAIN e_obj)

\* get with a default: a key that is absent reads as null.
GetOrNull(g_obj, k) == IF k \in DOMAIN g_obj THEN Some(g_obj[k]) ELSE Some(Null)

\* g_obj.get(k)
Get(g_obj, k) == IF k \in DOMAIN g_obj THEN Some(g_obj[k]) ELSE None

\* Equality of the variants alone.
ValueEqVariant(got_v, exp_v) == got_v.t = exp_v.t

\* Equality under which null equals nothing, itself included.
ValueEqNoNull(got_v, exp_v) == got_v.t = exp_v.t /\ got_v.v = exp_v.v /\ got_v.t # "Null"

\* Equality under which Numbers compare by magnitude: 6 equals 6.0.
ValueEqLoose(got_v, exp_v) ==
    /\ got_v.t = exp_v.t
    /\ IF got_v.t = "Number" THEN got_v.v.mag = exp_v.v.mag ELSE got_v.v = exp_v.v

\* got == exp, Value's PartialEq: the same variant with the same payload.
ValueEq(got_v, exp_v) == got_v.t = exp_v.t /\ got_v.v = exp_v.v

\* An iterator that yields its first item again and again.
AdvanceStuck(i) == i

\* The iterator of `all` moves to its next item.
Advance(i) == i + 1

\* An `all` that ignores what its closure returns.
AllBreaksNever(r) == FALSE

\* `all` stops, and is false, at the first item its closure returns false for.
AllBreaks(r) == r = "false"

(***************************************************************************)
(* cmp_expected as a function.                                             *)
(***************************************************************************)
RECURSIVE cmp_expected(_, _)
cmp_expected(got_v, exp_v) ==
    CASE exp_v.t = "Array" ->
           LET g == as_array(got_v) IN
           IF g.some
           THEN IF LenMismatch(exp_v.v, g.val) THEN FALSE
                ELSE LET z == Zip(exp_v.v, g.val) IN
                     \A i \in 1..Len(z) : cmp_expected(z[i].g, z[i].e)
           ELSE FALSE
      [] exp_v.t = "Object" ->
           LET g == as_object(got_v) IN
           IF g.some
           THEN \A k \in DOMAIN exp_v.v :
                    LET g_val == Get(g.val, k) IN
                    IF g_val.some THEN cmp_expected(g_val.val, exp_v.v[k]) ELSE FALSE
           ELSE FALSE
      [] OTHER -> ValueEq(got_v, exp_v)

(***************************************************************************)
(* cmp_expected as the machine that runs it.                               *)
(*   got, exp  the arguments of the outermost call                         *)
(*   stack     the calls in progress, the innermost last; a frame holds    *)
(*             the call's arguments g and e and i, the number of items its *)
(*             `all` has consumed                                          *)
(*   ret       what the call that returned last returned, "none" while a   *)
(*             call is running                                             *)
(***************************************************************************)
VARIABLES got, exp, stack, ret

vars == <<got, exp, stack, ret>>

Frame(g, e) == [g |-> g, e |-> e, i |-> 0]

Top == stack[Len(stack)]

Pop == SubSeq(stack, 1, Len(stack) - 1)

Running == ret = "none" /\ stack # <<>>

Done == stack = <<>>

Str(b) == IF b THEN "true" ELSE "false"

\* The top call returns b.
Return(b) ==
    /\ stack' = Pop
    /\ ret' = Str(b)
    /\ UNCHANGED <<got, exp>>

\* The top call calls cmp_expected(g, e).
Call(g, e) ==
    /\ stack' = Append(stack, Frame(g, e))
    /\ ret' = "none"
    /\ UNCHANGED <<got, exp>>

Init ==
    /\ got \in Values
    /\ exp \in Values
    /\ stack = <<Frame(got, exp)>>
    /\ ret = "none"

\* exp is an Array and got is not: None => false.
ArrayNone ==
    /\ Running
    /\ Top.e.t = "Array"
    /\ ~as_array(Top.g).some
    /\ Return(FALSE)

\* The arrays differ in length: return false.
ArrayLenMismatch ==
    /\ Running
    /\ Top.e.t = "Array"
    /\ as_array(Top.g).some
    /\ LenMismatch(Top.e.v, as_array(Top.g).val)
    /\ Return(FALSE)

\* `all` takes the next pair of the zip and calls cmp_expected(g, e) on it.
ArrayNext ==
    /\ Running
    /\ Top.e.t = "Array"
    /\ as_array(Top.g).some
    /\ ~LenMismatch(Top.e.v, as_array(Top.g).val)
    /\ LET z == Zip(Top.e.v, as_array(Top.g).val) IN
       /\ Top.i < Len(z)
       /\ Call(z[Top.i + 1].g, z[Top.i + 1].e)

\* The zip is exhausted: `all` is true.
ArrayAll ==
    /\ Running
    /\ Top.e.t = "Array"
    /\ as_array(Top.g).some
    /\ ~LenMismatch(Top.e.v, as_array(Top.g).val)
    /\ Top.i >= Len(Zip(Top.e.v, as_array(Top.g).val))
    /\ Return(TRUE)

\* exp is an Object and got is not: None => false.
ObjectNone ==
    /\ Running
    /\ Top.e.t = "Object"
    /\ ~as_object(Top.g).some
    /\ Return(FALSE)

\* `all` takes the next (k, e_val) of exp and g_obj has k: cmp_expected(g_val, e_val).
ObjectNext ==
    /\ Running
    /\ Top.e.t = "Object"
    /\ as_object(Top.g).some
    /\ LET ks == Iter(Top.e.v) IN
       /\ Top.i < Len(ks)
       /\ LET k == ks[Top.i + 1]
              g_val == Get(as_object(Top.g).val, k)
          IN /\ g_val.some
             /\ Call(g_val.val, Top.e.v[k])

\* `all` takes the next (k, e_val) of exp and g_obj has no k: the closure is
\* false, and so is `all`.
ObjectMissing ==
    /\ Running
    /\ Top.e.t = "Object"
    /\ as_object(Top.g).some
    /\ LET ks == Iter(Top.e.v) IN
       /\ Top.i < Len(ks)
       /\ ~Get(as_object(Top.g).val, ks[Top.i + 1]).some
    /\ Return(FALSE)

\* The members of exp are exhausted: `all` is true.
ObjectAll ==
    /\ Running
    /\ Top.e.t = "Object"
    /\ as_object(Top.g).some
    /\ Top.i >= Len(Iter(Top.e.v))
    /\ Return(TRUE)

\* exp is a scalar: got == exp.
ScalarEq ==
    /\ Running
    /\ Top.e.t \notin {"Array", "Object"}
    /\ Return(ValueEq(Top.g, Top.e))

\* A recursive call returned true: `all` goes on with the next item.
AllContinue ==
    /\ ret # "none"
    /\ stack # <<>>
    /\ ~AllBreaks(ret)
    /\ stack' = [stack EXCEPT ![Len(stack)].i = Advance(@)]
    /\ ret' = "none"
    /\ UNCHANGED <<got, exp>>

\* A recursive call returned false: `all` stops and is false.
AllShortCircuit ==
    /\ ret # "none"
    /\ stack # <<>>
    /\ AllBreaks(ret)
    /\ Return(FALSE)

Next ==
    \/ ArrayNone
    \/ ArrayLenMismatch
    \/ ArrayNext
    \/ ArrayAll
    \/ ObjectNone
    \/ ObjectNext
    \/ ObjectMissing
    \/ ObjectAll
    \/ ScalarEq
    \/ AllContinue
    \/ AllShortCircuit

Spec == Init /\ [][Next]_vars

\* A call that can take a step does: the program runs to its end.
FairSpec == Spec /\ WF_vars(Next)

\* The machine returns what the function computes.
MachineIsFunction == Done => ret = Str(cmp_expected(got, exp))

(***************************************************************************)
(* What the claims speak of.                                               *)
(***************************************************************************)
IsScalar(val) == val.t \notin {"Array", "Object"}

\* The map m without the keys outside ks.
Restrict(m, ks) == [k \in (DOMAIN m) \cap ks |-> m[k]]

\* The nesting depth of a value: 0 for a value with no members.
RECURSIVE NestingDepth(_)
NestingDepth(val) ==
    LET Max(S) == CHOOSE x \in S : \A y \in S : y <= x IN
    CASE val.t = "Array" /\ val.v # <<>> ->
           1 + Max({NestingDepth(val.v[i]) : i \in 1..Len(val.v)})
      [] val.t = "Object" /\ DOMAIN val.v # {} ->
           1 + Max({NestingDepth(val.v[k]) : k \in DOMAIN val.v})
      [] OTHER -> 0

\* A path is a sequence of steps, [idx |-> i] into an array or [key |-> k]
\* into an object.  The paths that exist in a value:
RECURSIVE Paths(_)
Paths(val) ==
    {<<>>} \cup
    CASE val.t = "Array" ->
           UNION {{<<[idx |-> i]>> \o p : p \in Paths(val.v[i])} : i \in 1..Len(val.v)}
      [] val.t = "Object" ->
           UNION {{<<[key |-> k]>> \o p : p \in Paths(val.v[k])} : k \in DOMAIN val.v}
      [] OTHER -> {}

\* The value has the path p.
RECURSIVE Has(_, _)
Has(val, p) ==
    IF p = <<>> THEN TRUE
    ELSE IF "idx" \in DOMAIN Head(p)
         THEN /\ val.t = "Array"
              /\ Head(p).idx <= Len(val.v)
              /\ Has(val.v[Head(p).idx], Tail(p))
         ELSE /\ val.t = "Object"
              /\ Head(p).key \in DOMAIN val.v
              /\ Has(val.v[Head(p).key], Tail(p))

\* The sub-value at the path p of a value that has it.
RECURSIVE At(_, _)
At(val, p) ==
    IF p = <<>> THEN val
    ELSE IF "idx" \in DOMAIN Head(p)
         THEN At(val.v[Head(p).idx], Tail(p))
         ELSE At(val.v[Head(p).key], Tail(p))

\* The shapes of g and e disagree somewhere: an Array of e against something
\* else or an Array of another length, an Object of e against something else
\* or an Object that lacks one of its keys, a scalar of e against a container.
RECURSIVE ShapeMismatch(_, _)
ShapeMismatch(g, e) ==
    CASE e.t = "Array" ->
           \/ g.t # "Array"
           \/ Len(g.v) # Len(e.v)
           \/ \E i \in 1..Len(e.v) : ShapeMismatch(g.v[i], e.v[i])
      [] e.t = "Object" ->
           \/ g.t # "Object"
           \/ \E k \in DOMAIN e.v : k \notin DOMAIN g.v \/ ShapeMismatch(g.v[k], e.v[k])
      [] OTHER -> ~IsScalar(g)

\* The frame `child` is the call the frame `parent` makes for the item its
\* `all` is at: a direct child of parent.e with the matching child of parent.g.
DirectChild(parent, child) ==
    \/ /\ parent.e.t = "Array"
       /\ parent.g.t = "Array"
       /\ parent.i + 1 <= Len(parent.e.v)
       /\ parent.i + 1 <= Len(parent.g.v)
       /\ child.e = parent.e.v[parent.i + 1]
       /\ child.g = parent.g.v[parent.i + 1]
    \/ /\ parent.e.t = "Object"
       /\ parent.g.t = "Object"
       /\ \E k \in DOMAIN parent.e.v :
             /\ k \in DOMAIN parent.g.v
             /\ child.e = parent.e.v[k]
             /\ child.g = parent.g.v[k]

(***************************************************************************)
(* The claims.                                                             *)
(***************************************************************************)

\* C1: when exp is an Object, cmp_expected(got, exp) is true if and only if
\* got is an Object that has every key k of exp with
\* cmp_expected(got[k], exp[k]) true; the keys of got that exp lacks do not
\* affect the result: got without them compares the same.
C1_ObjectSubset ==
    (Done /\ exp.t = "Object") =>
        /\ ret = Str(/\ got.t = "Object"
                     /\ \A k \in DOMAIN exp.v :
                           k \in DOMAIN got.v /\ cmp_expected(got.v[k], exp.v[k]))
        /\ got.t = "Object" =>
              ret = Str(cmp_expected(Object(Restrict(got.v, DOMAIN exp.v)), exp))

\* C1's case: an Object got with a key exp lacks matches a non-empty Object exp.
C1_Witness ==
    /\ Done
    /\ ret = "true"
    /\ exp.t = "Object"
    /\ got.t = "Object"
    /\ DOMAIN exp.v # {}
    /\ (DOMAIN got.v) \ (DOMAIN exp.v) # {}

\* C2: when exp is an Array, cmp_expected(got, exp) is true if and only if got
\* is an Array of the same length and cmp_expected(got[i], exp[i]) is true at
\* every index i; so arrays of different lengths never match.
C2_ArrayExact ==
    (Done /\ exp.t = "Array") =>
        ret = Str(/\ got.t = "Array"
                  /\ Len(got.v) = Len(exp.v)
                  /\ \A i \in 1..Len(exp.v) : cmp_expected(got.v[i], exp.v[i]))

\* C2's case: got is the longer array, and its first elements match those of
\* exp: the lengths alone make the result false.
C2_Witness ==
    /\ Done
    /\ ret = "false"
    /\ exp.t = "Array"
    /\ got.t = "Array"
    /\ Len(exp.v) >= 1
    /\ Len(got.v) > Len(exp.v)
    /\ \A i \in 1..Len(exp.v) : cmp_expected(got.v[i], exp.v[i])

\* C3: when exp is a scalar, cmp_expected(got, exp) is true if and only if got
\* is the same variant with the same value; any other got gives false.
C3_ScalarEquality ==
    (Done /\ IsScalar(exp)) => ret = Str(got.t = exp.t /\ got.v = exp.v)

\* C3's case: the string "6" against the number 6 is false.
C3_Witness ==
    /\ Done
    /\ ret = "false"
    /\ exp = Number("PosInt", 6)
    /\ got = String("6")

\* C4: when got is an Object whose keys are a strict superset of those of the
\* Object exp, and every key of exp has a matching value in got, then
\* cmp_expected(got, exp) is true and cmp_expected(exp, got) is false.
C4_NotCommutative ==
    ( /\ Done
      /\ got.t = "Object"
      /\ exp.t = "Object"
      /\ DOMAIN exp.v \subseteq DOMAIN got.v
      /\ DOMAIN exp.v # DOMAIN got.v
      /\ \A k \in DOMAIN exp.v : cmp_expected(got.v[k], exp.v[k]) )
    => (ret = "true" /\ ~cmp_expected(exp, got))

\* C4's case: got is {a, b}, exp has one of the two keys, with a matching value.
C4_Witness ==
    /\ Done
    /\ ret = "true"
    /\ got.t = "Object"
    /\ exp.t = "Object"
    /\ DOMAIN got.v = {"a", "b"}
    /\ Cardinality(DOMAIN exp.v) = 1
    /\ ~cmp_expected(exp, got)

\* C5: cmp_expected is total: a call that has not returned can always take a
\* step, the outermost call returns true or false and nothing else, and
\* whenever the shapes of got and exp disagree at some level it returns false.
C5_Total ==
    /\ Done \/ ENABLED Next
    /\ Done => ret \in {"true", "false"}
    /\ (Done /\ ShapeMismatch(got, exp)) => ret = "false"

\* C5's case: a shape mismatch one level down, an Array of exp against an
\* Object of got under the same key, has given false.
C5_Witness ==
    /\ Done
    /\ ret = "false"
    /\ exp.t = "Object"
    /\ got.t = "Object"
    /\ \E k \in DOMAIN exp.v :
          /\ k \in DOMAIN got.v
          /\ exp.v[k].t = "Array"
          /\ got.v[k].t = "Object"

\* C6: every Object got matches the empty Object exp; an Array got matches
\* the empty Array exp only when got is the empty Array.
C6_EmptyExpectation ==
    /\ (Done /\ exp = Object(<<>>) /\ got.t = "Object") => ret = "true"
    /\ (Done /\ exp = Array(<<>>) /\ got.t = "Array" /\ ret = "true") => got.v = <<>>

\* C6's case: a non-empty Array got against the empty Array exp.
C6_Witness ==
    /\ Done
    /\ ret = "false"
    /\ exp = Array(<<>>)
    /\ got.t = "Array"
    /\ Len(got.v) = 2

\* C7: for every path p that exists in exp, if got lacks p or the sub-value of
\* got at p does not match the sub-value of exp at p, then
\* cmp_expected(got, exp) is false.
C7_NestedMismatch ==
    Done =>
        \A p \in Paths(exp) :
            (~Has(got, p) \/ ~cmp_expected(At(got, p), At(exp, p))) => ret = "false"

\* C7's case: got has a path of two steps of exp, the scalars at its end
\* differ, and that has made the whole comparison false.
C7_Witness ==
    /\ Done
    /\ ret = "false"
    /\ \E p \in Paths(exp) :
          /\ Len(p) = 2
          /\ Has(got, p)
          /\ IsScalar(At(exp, p))
          /\ IsScalar(At(got, p))
          /\ At(got, p) # At(exp, p)

\* C8: cmp_expected(v, v) is true for every value v.
C8_Reflexive == (Done /\ got = exp) => ret = "true"

\* C8's case: a value nested two deep has been compared with itself.
C8_Witness ==
    /\ Done
    /\ ret = "true"
    /\ got = exp
    /\ NestingDepth(exp) = 2

\* The recursion stays within exp: the outermost frame is the call itself,
\* every frame above it is a call on a direct child of the frame below, and
\* the recursive calls in progress are no more than the nesting depth of exp.
RecursionBounded ==
    /\ Len(stack) <= 1 + NestingDepth(exp)
    /\ stack # <<>> => (stack[1].g = got /\ stack[1].e = exp)
    /\ \A j \in 1..(Len(stack) - 1) : DirectChild(stack[j], stack[j + 1])

\* C9: every call of cmp_expected returns, every recursive call is on a direct
\* child of exp paired with the matching child of got, and the recursion is
\* never deeper than exp is nested.
C9_Terminates == <>Done /\ []RecursionBounded

\* C9's case: the recursion is as deep as an exp nested two deep allows.
C9_Witness ==
    /\ NestingDepth(exp) = 2
    /\ Len(stack) = 3

\* C10: if cmp_expected(a, b) and cmp_expected(b, a) are both true, then a and
\* b are the same value.
C10_Antisymmetric ==
    (Done /\ ret = "true" /\ cmp_expected(exp, got)) => got = exp

\* C10's case: two Objects of two keys match in both directions.
C10_Witness ==
    /\ Done
    /\ ret = "true"
    /\ cmp_expected(exp, got)
    /\ got.t = "Object"
    /\ DOMAIN got.v = {"a", "b"}

====
